---- MODULE Spec2Model ----
(***************************************************************************)
(* A model of the IntuisNetatmo client (src/IntuisNetatmo.py): the token   *)
(* cache, the topology loader, the status synchronisation, the entity      *)
(* model, the commands and the queries.  Every client operation is         *)
(* blocking and single-threaded, so each operation is one action; the      *)
(* caller's arguments, the server's answers and the passing of time are    *)
(* the environment's choices.                                              *)
(***************************************************************************)
EXTENDS Integers, Sequences, FiniteSets, TLC

VARIABLES
    token,          \* self.token
    refresh_token,  \* self.refresh_token
    token_expiry,   \* self.token_expiry (NoExpiry models None)
    homesdata,      \* self.homesdata: the raw topology payload
    home_id,        \* self.home_id
    home_name,      \* self.home_name
    router_id,      \* self.router_id
    rooms,          \* self.rooms: room id -> IntuisRoom
    water_heaters,  \* self.water_heaters: key -> IntuisWaterHeater
    homestatus,     \* self.homestatus: the raw status payload
    now,            \* datetime.now().timestamp()
    op,             \* the operation that ran last ("idle": time has passed since)
    reqs,           \* the HTTP exchanges that operation made, in order
    err,            \* the exception it ended with ("none": it returned)
    tokenRet,       \* what _get_token returned inside it (None: nothing)
    args,           \* the arguments it was called with
    answer          \* what a command or a query returned (NoObj: nothing)

vars == <<token, refresh_token, token_expiry, homesdata, home_id, home_name,
          router_id, rooms, water_heaters, homestatus, now, op, reqs, err,
          tokenRet, args, answer>>

clientState == <<token, refresh_token, token_expiry, homesdata, home_id,
                 home_name, router_id, rooms, water_heaters, homestatus>>

----------------------------------------------------------------------------
(* Python values *)

\* Python's None, for string-valued fields
None == "None"

\* Python's None, for dict- and object-valued fields
NoObj == [none |-> TRUE]

\* self.token_expiry = None; None and 0 are both falsy in the test of line 76
NoExpiry == 0

\* truthiness of a string or None
Truthy(s) == s # None /\ s # ""

\* dict.get(k)
Get(d, k) == IF k \in DOMAIN d THEN d[k] ELSE None

\* the empty dict {}
EmptyMap == [k \in {} |-> NoObj]

\* the arguments of a call without arguments
NoArgs == EmptyMap

Min(S) == CHOOSE x \in S : \A y \in S : x <= y

----------------------------------------------------------------------------
(* Bounds of the model *)

\* the clock runs from 0 to MaxTicks steps of half a token lifetime
MaxTicks == 4

\* a room binds at most MaxBind module ids
MaxBind == 2

----------------------------------------------------------------------------
(* Time and HTTP *)

\* the hard-coded lifetime of line 100
TokenLifetime == 3600

Step == TokenLifetime \div 2

MaxNow == MaxTicks * Step

\* the time a token exchange may take between the clock reads of lines 77 and 100
Latency == {0, Step}

\* a variant of RaisesForStatus that lets client errors (4xx) through
RaisesForServerErrors(resp) == resp.status >= 500

\* response.raise_for_status(): 4xx and 5xx raise HTTPError
RaisesForStatus(resp) == resp.status >= 400

\* one HTTP exchange: the request as the server sees it (the endpoint, the
\* bearer of its Authorization header, the grant type of its form, its
\* data) and the status and body of the answer
Exchange(endpoint, bearer, grant, body, resp) ==
    [endpoint |-> endpoint, bearer |-> bearer, grant |-> grant, body |-> body,
     status |-> resp.status, answer |-> resp.body]

\* the request of lines 81-93 and its answer
TokenExchange(resp) == Exchange("oauth2/token", None, "password", NoObj, resp)

----------------------------------------------------------------------------
(* AuthManager: _get_token *)

\* what the token endpoint may answer: two successful grants with different
\* tokens and announced lifetimes, a success without tokens, and a refusal
TokenBodies ==
    { [status |-> 200, body |-> [access_token |-> "tokA", refresh_token |-> "refA",
                                 expires_in |-> 10800]],
      [status |-> 200, body |-> [access_token |-> "tokB", refresh_token |-> "refB",
                                 expires_in |-> 1800]],
      [status |-> 200, body |-> [scope |-> "read_muller"]],
      [status |-> 401, body |-> [error |-> "invalid_grant"]] }

\* each answer arrives at once or after a while (latency: the seconds between
\* the clock reads of lines 77 and 100)
TokenResponses ==
    {[status |-> r.status, body |-> r.body, latency |-> lat] :
        r \in TokenBodies, lat \in Latency}

\* a token endpoint that always grants the same token
TokenGranted ==
    { [status |-> 200, body |-> [access_token |-> "tokA", refresh_token |-> "refA",
                                 expires_in |-> 10800], latency |-> 0] }

\* the answers to draw from for a request: those of srv when the request is
\* sent, a single one (never read) when it is not
AnswersIf(sent, srv) == IF sent THEN srv ELSE {CHOOSE r \in srv : TRUE}

\* a variant of CacheValid that renews the token a while before it expires
CacheValidWithMargin(tok, exp, t) == Truthy(tok) /\ exp # NoExpiry /\ t + Step < exp

\* the test of lines 74-78
CacheValid(tok, exp, t) == Truthy(tok) /\ exp # NoExpiry /\ t < exp

\* the token endpoint is asked only when the cache does not serve the call
TokenAnswers(srv) == AnswersIf(~CacheValid(token, token_expiry, now), srv)

\* a variant of NewExpiry that honours the lifetime the server announces
NewExpiryFromServer(t, body) ==
    t + (IF "expires_in" \in DOMAIN body THEN body.expires_in ELSE TokenLifetime)

\* line 100
NewExpiry(t, body) == t + TokenLifetime

\* _get_token on the cache (tok, rtok, exp) at time t, the token endpoint
\* answering resp: the cache and the clock afterwards, the requests issued,
\* whether it returned (ok) and what (ret)
GetTokenResult(tok, rtok, exp, t, resp) ==
    LET lat == resp.latency IN
    IF CacheValid(tok, exp, t)
    THEN [token |-> tok, refresh_token |-> rtok, token_expiry |-> exp,
          now |-> t, reqs |-> <<>>, ok |-> TRUE, ret |-> tok]
    ELSE IF RaisesForStatus(resp)
    THEN [token |-> tok, refresh_token |-> rtok, token_expiry |-> exp,
          now |-> t + lat, reqs |-> <<TokenExchange(resp)>>, ok |-> FALSE, ret |-> None]
    ELSE [token |-> Get(resp.body, "access_token"),
          refresh_token |-> Get(resp.body, "refresh_token"),
          token_expiry |-> NewExpiry(t + lat, resp.body),
          now |-> t + lat, reqs |-> <<TokenExchange(resp)>>, ok |-> TRUE,
          ret |-> Get(resp.body, "access_token")]

\* _get_token called on its own
_get_token(tokenSrv) ==
    \E resp \in TokenAnswers(tokenSrv) :
        LET tk == GetTokenResult(token, refresh_token, token_expiry, now, resp)
        IN  /\ tk.now <= MaxNow
            /\ token' = tk.token
            /\ refresh_token' = tk.refresh_token
            /\ token_expiry' = tk.token_expiry
            /\ now' = tk.now
            /\ op' = "_get_token"
            /\ reqs' = tk.reqs
            /\ err' = IF tk.ok THEN "none" ELSE "HTTPError"
            /\ tokenRet' = tk.ret
            /\ args' = NoArgs
            /\ answer' = NoObj
            /\ UNCHANGED <<homesdata, home_id, home_name, router_id, rooms,
                           water_heaters, homestatus>>

----------------------------------------------------------------------------
(* Room / WaterHeater models *)

\* IntuisRoom.__init__
IntuisRoom(room_id, room_name, room_type) ==
    [id |-> room_id, name |-> room_name, type |-> room_type,
     current_temp |-> None, target_temp |-> None, mode |-> None,
     heating_power |-> None, energy_consumption |-> None,
     associated_modules |-> <<>>]

\* IntuisRoom.add_module
add_module(room, module) ==
    [room EXCEPT !.associated_modules =
        Append(@, [id |-> Get(module, "id"), name |-> Get(module, "name"),
                   type |-> Get(module, "type")])]

\* a variant of IntuisRoom_update_status that guards every field as it guards energy
IntuisRoom_update_status_present_only(room, room_status) ==
    LET upd(old, key) == IF key \in DOMAIN room_status THEN room_status[key] ELSE old
    IN  [room EXCEPT
            !.current_temp = upd(@, "therm_measured_temperature"),
            !.target_temp = upd(@, "therm_setpoint_temperature"),
            !.mode = upd(@, "therm_setpoint_mode"),
            !.heating_power = upd(@, "heating_power_request"),
            !.energy_consumption = upd(@, "energy")]

\* a variant of IntuisRoom_update_status that assigns energy as it assigns the
\* other fields
IntuisRoom_update_status_energy_reset(room, room_status) ==
    [room EXCEPT
        !.current_temp = Get(room_status, "therm_measured_temperature"),
        !.target_temp = Get(room_status, "therm_setpoint_temperature"),
        !.mode = Get(room_status, "therm_setpoint_mode"),
        !.heating_power = Get(room_status, "heating_power_request"),
        !.energy_consumption = Get(room_status, "energy")]

\* IntuisRoom.update_status
IntuisRoom_update_status(room, room_status) ==
    [room EXCEPT
        !.current_temp = Get(room_status, "therm_measured_temperature"),
        !.target_temp = Get(room_status, "therm_setpoint_temperature"),
        !.mode = Get(room_status, "therm_setpoint_mode"),
        !.heating_power = Get(room_status, "heating_power_request"),
        !.energy_consumption =
            IF "energy" \in DOMAIN room_status THEN room_status["energy"] ELSE @]

\* IntuisWaterHeater.__init__
IntuisWaterHeater(heater_id, heater_name, room_id) ==
    [id |-> heater_id, room_id |-> room_id, name |-> heater_name,
     boiler_status |-> None, connection_status |-> None,
     contactor_mode |-> None, firmware_revision |-> None,
     last_seen |-> None, bridge |-> None]

\* IntuisWaterHeater.update_status
IntuisWaterHeater_update_status(heater, heater_status) ==
    [heater EXCEPT
        !.boiler_status = Get(heater_status, "boiler_status"),
        !.connection_status = Get(heater_status, "connection_status"),
        !.contactor_mode = Get(heater_status, "contactor_mode"),
        !.firmware_revision = Get(heater_status, "firmware_revision"),
        !.last_seen = Get(heater_status, "last_seen"),
        !.bridge = Get(heater_status, "bridge")]

\* d[k] = v on a dict
Put(d, k, v) == [x \in DOMAIN d \cup {k} |-> IF x = k THEN v ELSE d[x]]

----------------------------------------------------------------------------
(* TopologyLoader: get_homesdata *)

\* the inner loop of lines 145-169: the first module record whose id is
\* module_id, NoObj when there is none
FindModule(modules, module_id) ==
    LET hits == {i \in 1..Len(modules) : modules[i].id = module_id}
    IN  IF hits = {} THEN NoObj ELSE modules[Min(hits)]

\* lines 147-156: a heating module creates the room or reuses it, and is
\* appended to its modules
OnHeatingModule(intuis_room, room, module) ==
    add_module(IF intuis_room = NoObj
               THEN IntuisRoom(room.id, room.name, room.type)
               ELSE intuis_room,
               module)

\* a variant of OnWaterHeaterModule that gives the heater the room's id
OnWaterHeaterModuleRoomId(intuis_water_heater, room, module_id) ==
    IF intuis_water_heater = NoObj
    THEN IntuisWaterHeater(room.id, room.name, room.id)
    ELSE intuis_water_heater

\* a variant of OnWaterHeaterModule where every water-heater module of the
\* room creates the heater anew
OnWaterHeaterModuleLast(intuis_water_heater, room, module_id) ==
    IntuisWaterHeater(module_id, room.name, room.id)

\* lines 157-163: the room's first water-heater module creates the heater
OnWaterHeaterModule(intuis_water_heater, room, module_id) ==
    IF intuis_water_heater = NoObj
    THEN IntuisWaterHeater(module_id, room.name, room.id)
    ELSE intuis_water_heater

\* a variant of OnModule that takes a module of any other type for a heating
\* module
OnModuleElseHeating(pair, room, module_id, module) ==
    IF module.type = "NMW"
    THEN [pair EXCEPT !.intuis_water_heater = OnWaterHeaterModule(@, room, module_id)]
    ELSE [pair EXCEPT !.intuis_room = OnHeatingModule(@, room, module)]

\* lines 147-167: what one resolved module does to the pair
\* (intuis_room, intuis_water_heater)
OnModule(pair, room, module_id, module) ==
    IF module.type = "NMH"
    THEN [pair EXCEPT !.intuis_room = OnHeatingModule(@, room, module)]
    ELSE IF module.type = "NMW"
    THEN [pair EXCEPT !.intuis_water_heater = OnWaterHeaterModule(@, room, module_id)]
    ELSE pair

\* the loop of lines 143-169 over room["module_ids"], from position i
RECURSIVE ScanModules(_, _, _, _)
ScanModules(room, modules, i, pair) ==
    IF i > Len(room.module_ids) THEN pair
    ELSE LET module_id == room.module_ids[i]
             module == FindModule(modules, module_id)
         IN  ScanModules(room, modules, i + 1,
                         IF module = NoObj THEN pair
                         ELSE OnModule(pair, room, module_id, module))

\* line 137
HasBindings(room) == "module_ids" \in DOMAIN room /\ room.module_ids # <<>>

\* lines 171-172
RegisterRoom(rs, room_id, intuis_room) ==
    IF intuis_room # NoObj THEN Put(rs, room_id, intuis_room) ELSE rs

\* lines 174-175
RegisterWaterHeater(ws, room_id, intuis_water_heater) ==
    IF intuis_water_heater # NoObj THEN Put(ws, room_id, intuis_water_heater) ELSE ws

\* the loop of lines 136-176 over the home's rooms, from position i, on the
\* maps acc = [rooms, water_heaters]
RECURSIVE LoadRooms(_, _, _, _)
LoadRooms(roomList, modules, i, acc) ==
    IF i > Len(roomList) THEN acc
    ELSE LET room == roomList[i]
             pair == ScanModules(room, modules, 1,
                                 [intuis_room |-> NoObj, intuis_water_heater |-> NoObj])
         IN  LoadRooms(roomList, modules, i + 1,
                       IF HasBindings(room)
                       THEN [rooms |-> RegisterRoom(acc.rooms, room.id, pair.intuis_room),
                             water_heaters |-> RegisterWaterHeater(acc.water_heaters,
                                                 room.id, pair.intuis_water_heater)]
                       ELSE acc)

\* a variant of RoomsAtLoad that keeps the rooms of the earlier loads
RoomsAtLoadKept(rs) == rs

\* line 135: the map the room loop starts from
RoomsAtLoad(rs) == EmptyMap

\* the water-heater map the room loop starts from: get_homesdata does not
\* assign self.water_heaters, so it is the map of the earlier loads
WaterHeatersAtLoad(ws) == ws

\* lines 130-133: the first NMG module's id, the old router id without one
FindRouter(modules, old) ==
    LET hits == {i \in 1..Len(modules) : Get(modules[i], "type") = "NMG"}
    IN  IF hits = {} THEN old ELSE Get(modules[Min(hits)], "id")

\* lines 126-176 on a 2xx answer: the client's topology state after the
\* payload is parsed, old being that state before
ParseHomesdata(old, payload) ==
    LET homes == payload.body.homes
    IN  IF homes = <<>>
        THEN [old EXCEPT !.homesdata = payload, !.err = "IndexError"]
        ELSE LET home == homes[1]
                 maps == LoadRooms(home.rooms, home.modules, 1,
                             [rooms |-> RoomsAtLoad(old.rooms),
                              water_heaters |-> WaterHeatersAtLoad(old.water_heaters)])
             IN  [homesdata |-> payload,
                  home_id |-> home.id,
                  home_name |-> home.name,
                  router_id |-> FindRouter(home.modules, old.router_id),
                  rooms |-> maps.rooms,
                  water_heaters |-> maps.water_heaters,
                  err |-> "none"]

\* lines 119-178 once _get_token has ended as tk: the requests made, the
\* exception, and the client's topology state afterwards
HomesdataResult(tk, resp) ==
    LET old == [homesdata |-> homesdata, home_id |-> home_id,
                home_name |-> home_name, router_id |-> router_id,
                rooms |-> rooms, water_heaters |-> water_heaters,
                err |-> "HTTPError"]
        new == IF ~tk.ok \/ RaisesForStatus(resp) THEN old
               ELSE ParseHomesdata(old, resp.body)
    IN  [reqs |-> IF tk.ok
                  THEN Append(tk.reqs, Exchange("api/homesdata", tk.ret, None, NoObj, resp))
                  ELSE tk.reqs,
         err |-> new.err,
         homesdata |-> new.homesdata,
         home_id |-> new.home_id,
         home_name |-> new.home_name,
         router_id |-> new.router_id,
         rooms |-> new.rooms,
         water_heaters |-> new.water_heaters]

\* get_homesdata
get_homesdata(tokenSrv, topoSrv) ==
    \E tresp \in TokenAnswers(tokenSrv) :
    \E resp \in AnswersIf(GetTokenResult(token, refresh_token, token_expiry, now,
                                         tresp).ok, topoSrv) :
        LET tk == GetTokenResult(token, refresh_token, token_expiry, now, tresp)
            new == HomesdataResult(tk, resp)
        IN  /\ tk.now <= MaxNow
            /\ token' = tk.token
            /\ refresh_token' = tk.refresh_token
            /\ token_expiry' = tk.token_expiry
            /\ now' = tk.now
            /\ tokenRet' = tk.ret
            /\ op' = "get_homesdata"
            /\ args' = NoArgs
            /\ answer' = NoObj
            /\ reqs' = new.reqs
            /\ err' = new.err
            /\ homesdata' = new.homesdata
            /\ home_id' = new.home_id
            /\ home_name' = new.home_name
            /\ router_id' = new.router_id
            /\ rooms' = new.rooms
            /\ water_heaters' = new.water_heaters
            /\ UNCHANGED homestatus

----------------------------------------------------------------------------
(* StatusSync: get_homestatus *)

\* next((r for r in entries if r["id"] == id), None)
FirstWithId(entries, id) ==
    LET hits == {i \in 1..Len(entries) : entries[i].id = id}
    IN  IF hits = {} THEN NoObj ELSE entries[Min(hits)]

\* a variant of MergeRoom that clears a room the payload has no entry for
MergeRoomClearing(room, status) ==
    LET matching_room == FirstWithId(status.body.home.rooms, room.id)
    IN  IF matching_room # NoObj THEN IntuisRoom_update_status(room, matching_room)
        ELSE IntuisRoom(room.id, room.name, room.type)

\* lines 205-216 for one room
MergeRoom(room, status) ==
    LET matching_room == FirstWithId(status.body.home.rooms, room.id)
    IN  IF matching_room # NoObj THEN IntuisRoom_update_status(room, matching_room) ELSE room

\* lines 220-231 for one water heater
MergeWaterHeater(water_heater, status) ==
    LET matching_water_heater == FirstWithId(status.body.home.modules, water_heater.id)
    IN  IF matching_water_heater # NoObj
        THEN IntuisWaterHeater_update_status(water_heater, matching_water_heater)
        ELSE water_heater

\* a variant of ConfigPullRefused that does not check the answer of the
\* configuration pull
ConfigPullUnchecked(cresp) == FALSE

\* line 197: the check of the configuration pull's answer
ConfigPullRefused(cresp) == RaisesForStatus(cresp)

\* lines 188-231 on the client state st = [home_id, rooms, water_heaters,
\* homestatus] once _get_token has ended as tk: the requests made, the
\* exception, and the snapshot and the entities afterwards
HomestatusResultOn(st, tk, cresp, sresp) ==
    LET data == [home_id |-> st.home_id]
        req1 == Exchange("syncapi/v1/getconfigs", tk.ret, None, data, cresp)
        req2 == Exchange("syncapi/v1/homestatus", tk.ret, None, data, sresp)
        merged == tk.ok /\ ~ConfigPullRefused(cresp) /\ ~RaisesForStatus(sresp)
    IN  [reqs |-> IF ~tk.ok THEN tk.reqs
                  ELSE IF ConfigPullRefused(cresp) THEN Append(tk.reqs, req1)
                  ELSE tk.reqs \o <<req1, req2>>,
         err |-> IF merged THEN "none" ELSE "HTTPError",
         homestatus |-> IF merged THEN sresp.body ELSE st.homestatus,
         rooms |-> IF merged
                   THEN [k \in DOMAIN st.rooms |-> MergeRoom(st.rooms[k], sresp.body)]
                   ELSE st.rooms,
         water_heaters |->
                   IF merged
                   THEN [k \in DOMAIN st.water_heaters |->
                            MergeWaterHeater(st.water_heaters[k], sresp.body)]
                   ELSE st.water_heaters]

\* the same on the client's current state
HomestatusResult(tk, cresp, sresp) ==
    HomestatusResultOn([home_id |-> home_id, rooms |-> rooms,
                        water_heaters |-> water_heaters, homestatus |-> homestatus],
                       tk, cresp, sresp)

\* get_homestatus
get_homestatus(tokenSrv, configSrv, statusSrv) ==
    \E tresp \in TokenAnswers(tokenSrv) :
    \E cresp \in AnswersIf(GetTokenResult(token, refresh_token, token_expiry, now,
                                          tresp).ok, configSrv) :
    \E sresp \in AnswersIf(GetTokenResult(token, refresh_token, token_expiry, now,
                                          tresp).ok /\ ~ConfigPullRefused(cresp),
                           statusSrv) :
        LET tk == GetTokenResult(token, refresh_token, token_expiry, now, tresp)
            res == HomestatusResult(tk, cresp, sresp)
        IN  /\ tk.now <= MaxNow
            /\ token' = tk.token
            /\ refresh_token' = tk.refresh_token
            /\ token_expiry' = tk.token_expiry
            /\ now' = tk.now
            /\ tokenRet' = tk.ret
            /\ op' = "get_homestatus"
            /\ args' = NoArgs
            /\ answer' = NoObj
            /\ reqs' = res.reqs
            /\ err' = res.err
            /\ homestatus' = res.homestatus
            /\ rooms' = res.rooms
            /\ water_heaters' = res.water_heaters
            /\ UNCHANGED <<homesdata, home_id, home_name, router_id>>

----------------------------------------------------------------------------
(* The initial pull: pull_data *)

\* a variant of PullContinues that goes on to the status whatever the load
\* ended with
PullContinuesAlways(loadErr) == TRUE

\* lines 108-109: get_homestatus is called when get_homesdata has returned;
\* an exception of get_homesdata leaves pull_data at once
PullContinues(loadErr) == loadErr = "none"

\* pull_data: get_homesdata, then get_homestatus on the state it leaves
pull_data(tokenSrv, topoSrv, configSrv, statusSrv) ==
    \E tresp1 \in TokenAnswers(tokenSrv) :
    \E resp \in AnswersIf(GetTokenResult(token, refresh_token, token_expiry, now,
                                         tresp1).ok, topoSrv) :
        LET tk1 == GetTokenResult(token, refresh_token, token_expiry, now, tresp1)
            load == HomesdataResult(tk1, resp)
            goesOn == PullContinues(load.err)
        IN  \E tresp2 \in AnswersIf(goesOn /\ ~CacheValid(tk1.token, tk1.token_expiry,
                                                          tk1.now), tokenSrv) :
            LET tk2 == GetTokenResult(tk1.token, tk1.refresh_token, tk1.token_expiry,
                                      tk1.now, tresp2)
            IN  \E cresp \in AnswersIf(goesOn /\ tk2.ok, configSrv) :
                \E sresp \in AnswersIf(goesOn /\ tk2.ok /\ ~ConfigPullRefused(cresp),
                                       statusSrv) :
                    LET res == HomestatusResultOn(
                                   [home_id |-> load.home_id, rooms |-> load.rooms,
                                    water_heaters |-> load.water_heaters,
                                    homestatus |-> homestatus],
                                   tk2, cresp, sresp)
                        tk == IF goesOn THEN tk2 ELSE tk1
                    IN  /\ tk.now <= MaxNow
                        /\ token' = tk.token
                        /\ refresh_token' = tk.refresh_token
                        /\ token_expiry' = tk.token_expiry
                        /\ now' = tk.now
                        /\ tokenRet' = tk.ret
                        /\ op' = "pull_data"
                        /\ args' = NoArgs
                        /\ answer' = NoObj
                        /\ reqs' = IF goesOn THEN load.reqs \o res.reqs ELSE load.reqs
                        /\ err' = IF goesOn THEN res.err ELSE load.err
                        /\ homesdata' = load.homesdata
                        /\ home_id' = load.home_id
                        /\ home_name' = load.home_name
                        /\ router_id' = load.router_id
                        /\ rooms' = IF goesOn THEN res.rooms ELSE load.rooms
                        /\ water_heaters' =
                              IF goesOn THEN res.water_heaters ELSE load.water_heaters
                        /\ homestatus' = IF goesOn THEN res.homestatus ELSE homestatus

----------------------------------------------------------------------------
(* Queries: get_room_mode, get_room_setpoint, get_room_temperature,        *)
(* get_water_heater_mode                                                   *)

\* what a query ends with: an exception, or the value it returns
Raised(error) == [err |-> error, answer |-> NoObj]

Returned(value) == [err |-> "none", answer |-> [value |-> value]]

\* subscripting the keys of a dict: KeyError unless it has them all
HasKeys(d, keys) == keys \subseteq DOMAIN d

\* lines 513-522
get_room_mode_lookup(status, a) ==
    LET room == FirstWithId(status.body.home.rooms, a.room_id)
    IN  IF room = NoObj THEN Raised("ValueError")
        ELSE IF ~HasKeys(room, {"therm_setpoint_mode", "therm_measured_temperature",
                                "therm_setpoint_temperature", "therm_setpoint_end_time"})
        THEN Raised("KeyError")
        ELSE Returned([mode |-> room.therm_setpoint_mode,
                       current_temp |-> room.therm_measured_temperature,
                       target_temp |-> room.therm_setpoint_temperature,
                       end_time |-> room.therm_setpoint_end_time])

\* lines 540-547
get_room_setpoint_lookup(status, a) ==
    LET room == FirstWithId(status.body.home.rooms, a.room_id)
    IN  IF room = NoObj THEN Raised("ValueError")
        ELSE IF ~HasKeys(room, {"therm_setpoint_temperature", "therm_setpoint_end_time"})
        THEN Raised("KeyError")
        ELSE Returned([target_temp |-> room.therm_setpoint_temperature,
                       end_time |-> room.therm_setpoint_end_time])

\* lines 565-569
get_room_temperature_lookup(status, a) ==
    LET room == FirstWithId(status.body.home.rooms, a.room_id)
    IN  IF room = NoObj THEN Raised("ValueError")
        ELSE IF ~HasKeys(room, {"therm_measured_temperature"}) THEN Raised("KeyError")
        ELSE Returned(room.therm_measured_temperature)

\* a variant of get_water_heater_mode_lookup that takes the first module
\* record of the id, whatever its type
get_water_heater_mode_lookup_any_type(status, a) ==
    LET module == FirstWithId(status.body.home.modules, a.water_heater_id)
    IN  IF module = NoObj THEN Raised("ValueError")
        ELSE IF ~HasKeys(module, {"contactor_mode"}) THEN Raised("KeyError")
        ELSE Returned(module.contactor_mode)

\* lines 587-591: the first module record of the id and of type NMW
get_water_heater_mode_lookup(status, a) ==
    LET modules == status.body.home.modules
        hits == {i \in 1..Len(modules) :
                    modules[i].id = a.water_heater_id /\ modules[i].type = "NMW"}
    IN  IF hits = {} THEN Raised("ValueError")
        ELSE IF ~HasKeys(modules[Min(hits)], {"contactor_mode"}) THEN Raised("KeyError")
        ELSE Returned(modules[Min(hits)].contactor_mode)

\* the loop of the query called name
Lookup(name, status, a) ==
    IF name = "get_room_mode" THEN get_room_mode_lookup(status, a)
    ELSE IF name = "get_room_setpoint" THEN get_room_setpoint_lookup(status, a)
    ELSE IF name = "get_room_temperature" THEN get_room_temperature_lookup(status, a)
    ELSE get_water_heater_mode_lookup(status, a)

\* a query on the stored snapshot
QueryStored(name, a) ==
    /\ homestatus # NoObj
    /\ op' = name
    /\ args' = a
    /\ reqs' = <<>>
    /\ tokenRet' = None
    /\ err' = Lookup(name, homestatus, a).err
    /\ answer' = Lookup(name, homestatus, a).answer
    /\ UNCHANGED <<clientState, now>>

\* a query without a stored snapshot ('if not self.homestatus', lines 510-511
\* and the like): get_homestatus runs first, and the query goes on when it
\* returns
QueryFetching(name, a, tokenSrv, configSrv, statusSrv) ==
    /\ homestatus = NoObj
    /\ \E tresp \in TokenAnswers(tokenSrv) :
       \E cresp \in AnswersIf(GetTokenResult(token, refresh_token, token_expiry, now,
                                             tresp).ok, configSrv) :
       \E sresp \in AnswersIf(GetTokenResult(token, refresh_token, token_expiry, now,
                                             tresp).ok /\ ~ConfigPullRefused(cresp),
                              statusSrv) :
        LET tk == GetTokenResult(token, refresh_token, token_expiry, now, tresp)
            res == HomestatusResult(tk, cresp, sresp)
            out == IF res.err = "none" THEN Lookup(name, res.homestatus, a)
                   ELSE Raised(res.err)
        IN  /\ tk.now <= MaxNow
            /\ token' = tk.token
            /\ refresh_token' = tk.refresh_token
            /\ token_expiry' = tk.token_expiry
            /\ now' = tk.now
            /\ tokenRet' = tk.ret
            /\ op' = name
            /\ args' = a
            /\ reqs' = res.reqs
            /\ err' = out.err
            /\ answer' = out.answer
            /\ homestatus' = res.homestatus
            /\ rooms' = res.rooms
            /\ water_heaters' = res.water_heaters
            /\ UNCHANGED <<homesdata, home_id, home_name, router_id>>

\* a query: lines 510-522 and the like
Query(name, a, tokenSrv, configSrv, statusSrv) ==
    \/ QueryStored(name, a)
    \/ QueryFetching(name, a, tokenSrv, configSrv, statusSrv)

\* get_room_mode
get_room_mode(calls, tokenSrv, configSrv, statusSrv) ==
    \E a \in calls :
        Query("get_room_mode", a, tokenSrv, configSrv, statusSrv)

\* get_room_setpoint
get_room_setpoint(calls, tokenSrv, configSrv, statusSrv) ==
    \E a \in calls :
        Query("get_room_setpoint", a, tokenSrv, configSrv, statusSrv)

\* get_room_temperature
get_room_temperature(calls, tokenSrv, configSrv, statusSrv) ==
    \E a \in calls :
        Query("get_room_temperature", a, tokenSrv, configSrv, statusSrv)

\* get_water_heater_mode
get_water_heater_mode(calls, tokenSrv, configSrv, statusSrv) ==
    \E a \in calls :
        Query("get_water_heater_mode", a, tokenSrv, configSrv, statusSrv)

----------------------------------------------------------------------------
(* CommandDispatcher: set_room_setpoint, set_room_off, set_room_hg,        *)
(* set_room_mode, set_water_heater_mode                                    *)

\* A temperature is written as its decimal string ("19.5", "7"), like the
\* status fields, so that it may be None; an end time is an integer, and the
\* arguments of a call made without end_time (the default, None) have no
\* end_time.  A request's body is the dict that json.dumps serialises.

\* line 356: if end_time
EndTimeSent(a) == "end_time" \in DOMAIN a /\ a.end_time # 0

\* lines 343-357: the data of set_room_setpoint
set_room_setpoint_data(hid, a) ==
    LET room == [id |-> a.room_id, therm_setpoint_mode |-> "manual",
                 therm_setpoint_temperature |-> a.temp]
    IN  [home |-> [id |-> hid,
                   rooms |-> <<IF EndTimeSent(a)
                               THEN Put(room, "therm_setpoint_end_time", a.end_time)
                               ELSE room>>]]

\* a variant of set_room_off_data that sends the room's stored target
\* temperature when it has one
set_room_off_data_stored_target(hid, a) ==
    LET stored == IF a.room_id \in DOMAIN rooms THEN rooms[a.room_id].target_temp ELSE None
    IN  [home |-> [id |-> hid,
                   rooms |-> <<[id |-> a.room_id, therm_setpoint_mode |-> "off",
                                therm_setpoint_temperature |->
                                    IF stored # None THEN stored ELSE "7"]>>]]

\* lines 380-391: the data of set_room_off
set_room_off_data(hid, a) ==
    [home |-> [id |-> hid,
               rooms |-> <<[id |-> a.room_id, therm_setpoint_mode |-> "off",
                            therm_setpoint_temperature |-> "7"]>>]]

\* lines 414-425: the data of set_room_hg
set_room_hg_data(hid, a) ==
    [home |-> [id |-> hid,
               rooms |-> <<[id |-> a.room_id, therm_setpoint_mode |-> "hg",
                            therm_setpoint_temperature |-> "7"]>>]]

\* line 469
valid_modes == {"program", "away", "hg", "manual"}

\* a variant of set_room_mode_rejects that lets every call through
set_room_mode_rejects_none(a) == FALSE

\* lines 470-474: the calls set_room_mode raises ValueError for
set_room_mode_rejects(a) ==
    a.mode \notin valid_modes \/ (a.mode = "manual" /\ a.temperature = None)

\* a variant of set_room_mode_data that sends every temperature it is given
set_room_mode_data_any_temperature(hid, a) ==
    LET room == [id |-> a.room_id, therm_setpoint_mode |-> a.mode]
    IN  [home |-> [id |-> hid,
                   rooms |-> <<IF a.temperature # None
                               THEN Put(room, "therm_setpoint_temperature", a.temperature)
                               ELSE room>>]]

\* lines 483-491: the data of set_room_mode
set_room_mode_data(hid, a) ==
    LET room == [id |-> a.room_id, therm_setpoint_mode |-> a.mode]
    IN  [home |-> [id |-> hid,
                   rooms |-> <<IF a.mode = "manual"
                               THEN Put(room, "therm_setpoint_temperature", a.temperature)
                               ELSE room>>]]

\* lines 607-608: the calls set_water_heater_mode raises ValueError for
set_water_heater_mode_rejects(a) == a.mode \notin {"auto", "manual"}

\* lines 617-622: the data of set_water_heater_mode
set_water_heater_mode_data(hid, a) ==
    [home |-> [id |-> hid,
               modules |-> <<[id |-> a.water_heater_id, contactor_mode |-> a.mode]>>]]

\* a variant of DispatchResult that sends a refused request a second time
DispatchResultRetrying(tk, url, data, resp) ==
    LET req == Exchange(url, tk.ret, None, data, resp)
    IN  IF ~tk.ok THEN [reqs |-> tk.reqs, err |-> "HTTPError", answer |-> NoObj]
        ELSE IF RaisesForStatus(resp)
        THEN [reqs |-> tk.reqs \o <<req, req>>, err |-> "HTTPError", answer |-> NoObj]
        ELSE [reqs |-> Append(tk.reqs, req), err |-> "none",
              answer |-> [value |-> resp.body]]

\* the tail every command shares (lines 358-360): one POST with the bearer
\* _get_token returned, raise_for_status, return response.json()
DispatchResult(tk, url, data, resp) ==
    LET req == Exchange(url, tk.ret, None, data, resp)
    IN  IF ~tk.ok THEN [reqs |-> tk.reqs, err |-> "HTTPError", answer |-> NoObj]
        ELSE IF RaisesForStatus(resp)
        THEN [reqs |-> Append(tk.reqs, req), err |-> "HTTPError", answer |-> NoObj]
        ELSE [reqs |-> Append(tk.reqs, req), err |-> "none",
              answer |-> [value |-> resp.body]]

\* a variant of DispatchFrame where a command leaves its mode in the rooms
DispatchFrameMirroring ==
    /\ rooms' = [k \in DOMAIN rooms |-> [rooms[k] EXCEPT !.mode = "commanded"]]
    /\ UNCHANGED <<homesdata, home_id, home_name, router_id, water_heaters, homestatus>>

\* what a command leaves alone: no command assigns a field of the client or
\* calls a method of a room or a water heater
DispatchFrame ==
    UNCHANGED <<homesdata, home_id, home_name, router_id, rooms, water_heaters,
                homestatus>>

\* a command that passed its validation: _get_token, then the request
Dispatch(name, a, url, data, tokenSrv, cmdSrv) ==
    \E tresp \in TokenAnswers(tokenSrv) :
    \E resp \in AnswersIf(GetTokenResult(token, refresh_token, token_expiry, now,
                                         tresp).ok, cmdSrv) :
        LET tk == GetTokenResult(token, refresh_token, token_expiry, now, tresp)
            res == DispatchResult(tk, url, data, resp)
        IN  /\ tk.now <= MaxNow
            /\ token' = tk.token
            /\ refresh_token' = tk.refresh_token
            /\ token_expiry' = tk.token_expiry
            /\ now' = tk.now
            /\ tokenRet' = tk.ret
            /\ op' = name
            /\ args' = a
            /\ reqs' = res.reqs
            /\ err' = res.err
            /\ answer' = res.answer
            /\ DispatchFrame

\* a command that raises ValueError in its validation
Reject(name, a) ==
    /\ op' = name
    /\ args' = a
    /\ reqs' = <<>>
    /\ err' = "ValueError"
    /\ tokenRet' = None
    /\ answer' = NoObj
    /\ UNCHANGED <<clientState, now>>

\* set_room_setpoint
set_room_setpoint(calls, tokenSrv, cmdSrv) ==
    \E a \in calls :
        Dispatch("set_room_setpoint", a, "syncapi/v1/setstate",
                 set_room_setpoint_data(home_id, a), tokenSrv, cmdSrv)

\* set_room_off
set_room_off(calls, tokenSrv, cmdSrv) ==
    \E a \in calls :
        Dispatch("set_room_off", a, "syncapi/v1/setstate",
                 set_room_off_data(home_id, a), tokenSrv, cmdSrv)

\* set_room_hg
set_room_hg(calls, tokenSrv, cmdSrv) ==
    \E a \in calls :
        Dispatch("set_room_hg", a, "api/setroomthermpoint",
                 set_room_hg_data(home_id, a), tokenSrv, cmdSrv)

\* set_room_mode
set_room_mode(calls, tokenSrv, cmdSrv) ==
    \E a \in calls :
        IF set_room_mode_rejects(a)
        THEN Reject("set_room_mode", a)
        ELSE Dispatch("set_room_mode", a, "api/setroomthermpoint",
                      set_room_mode_data(home_id, a), tokenSrv, cmdSrv)

\* set_water_heater_mode
set_water_heater_mode(calls, tokenSrv, cmdSrv) ==
    \E a \in calls :
        IF set_water_heater_mode_rejects(a)
        THEN Reject("set_water_heater_mode", a)
        ELSE Dispatch("set_water_heater_mode", a, "api/setcontactormode",
                      set_water_heater_mode_data(home_id, a), tokenSrv, cmdSrv)

----------------------------------------------------------------------------
(* The host layer (src/climate.py): IntuisNetatmoClimate                   *)

\* An entity's _room is the IntuisRoom object that client.rooms holds under
\* the room's id: async_setup_platform hands the objects of client.rooms to
\* the entities, the host layer never reloads the topology, and async_update
\* binds _room to the object of that id again.  The field of an entity's
\* _room is therefore the field of rooms[room_id].  A handler catches every
\* exception of its client call and logs it: err is that exception.

\* the client as do_init leaves it
Fresh ==
    /\ token = None /\ token_expiry = NoExpiry
    /\ homesdata = NoObj /\ homestatus = NoObj
    /\ rooms = EmptyMap /\ water_heaters = EmptyMap

\* async_setup_platform, lines 73-87: a new client pulls its data, and the
\* rooms it has then get an entity each
async_setup_platform(tokenSrv, topoSrv, configSrv, statusSrv) ==
    /\ Fresh
    /\ pull_data(tokenSrv, topoSrv, configSrv, statusSrv)

\* the rooms that have an entity: those of a client whose pull_data returned
HasEntity(r) == homestatus # NoObj /\ r \in DOMAIN rooms

\* MODE_MAP, lines 51-56, in the order of its keys; the HVAC modes are
\* written as their values ("auto", "heat", "off")
MODE_MAP ==
    << <<"program", "auto">>, <<"manual", "heat">>, <<"off", "off">>, <<"hg", "off">> >>

\* lines 159-160: the reversed map keeps, for an HVAC mode of several keys,
\* the last of them
mode_map_reverse_get(hvac_mode) ==
    LET hits == {i \in 1..Len(MODE_MAP) : MODE_MAP[i][2] = hvac_mode}
    IN  IF hits = {} THEN None
        ELSE MODE_MAP[CHOOSE i \in hits : \A j \in hits : j <= i][1]

\* line 115
preset_modes == {"program", "manual", "off", "hg"}

\* 'target_temp or 20.0', lines 169 and 187: a temperature that is None or
\* zero gives way to 20.0
TargetOrDefault(t) == IF t # None /\ t # "0" THEN t ELSE "20.0"

\* a handler that returns before it calls the client (lines 147-148, 161-162)
HostReturn(name, a) ==
    /\ op' = name
    /\ args' = a
    /\ reqs' = <<>>
    /\ err' = "none"
    /\ tokenRet' = None
    /\ answer' = NoObj
    /\ UNCHANGED <<clientState, now>>

\* a variant of Mirror that writes the field before the call, whatever the
\* call ends with
MirrorBeforeCall(error, r, field, value) == [rooms EXCEPT ![r][field] = value]

\* lines 151-152, 173, 191: the assignment after the client call, reached
\* when the call has returned
Mirror(error, r, field, value) ==
    IF error = "none" THEN [rooms EXCEPT ![r][field] = value] ELSE rooms

\* a handler's try block around a call of a command that is sent to url with
\* data unless rejected, and that is mirrored in field
HostCall(name, a, r, rejected, url, data, field, value, tokenSrv, cmdSrv) ==
    IF rejected
    THEN /\ op' = name
         /\ args' = a
         /\ reqs' = <<>>
         /\ err' = "ValueError"
         /\ tokenRet' = None
         /\ answer' = NoObj
         /\ rooms' = Mirror("ValueError", r, field, value)
         /\ UNCHANGED <<token, refresh_token, token_expiry, homesdata, home_id,
                        home_name, router_id, water_heaters, homestatus, now>>
    ELSE \E tresp \in TokenAnswers(tokenSrv) :
         \E resp \in AnswersIf(GetTokenResult(token, refresh_token, token_expiry, now,
                                              tresp).ok, cmdSrv) :
            LET tk == GetTokenResult(token, refresh_token, token_expiry, now, tresp)
                res == DispatchResult(tk, url, data, resp)
            IN  /\ tk.now <= MaxNow
                /\ token' = tk.token
                /\ refresh_token' = tk.refresh_token
                /\ token_expiry' = tk.token_expiry
                /\ now' = tk.now
                /\ tokenRet' = tk.ret
                /\ op' = name
                /\ args' = a
                /\ reqs' = res.reqs
                /\ err' = res.err
                /\ answer' = NoObj
                /\ rooms' = Mirror(res.err, r, field, value)
                /\ UNCHANGED <<homesdata, home_id, home_name, router_id,
                               water_heaters, homestatus>>

\* async_set_temperature, lines 144-155
async_set_temperature(temperatures, tokenSrv, cmdSrv) ==
    \E r \in DOMAIN rooms : \E t \in temperatures :
        LET a == [room_id |-> r, temperature |-> t]
        IN  /\ HasEntity(r)
            /\ IF t = None
               THEN HostReturn("async_set_temperature", a)
               ELSE HostCall("async_set_temperature", a, r, FALSE,
                             "syncapi/v1/setstate",
                             set_room_setpoint_data(home_id, [room_id |-> r, temp |-> t]),
                             "target_temp", t, tokenSrv, cmdSrv)

\* the set_room_mode call of lines 164-172 and 182-190 for a mode
RoomModeCall(r, mode) ==
    [room_id |-> r, mode |-> mode,
     temperature |-> IF mode = "manual" THEN TargetOrDefault(rooms[r].target_temp)
                     ELSE None]

\* async_set_hvac_mode, lines 157-177
async_set_hvac_mode(hvac_modes, tokenSrv, cmdSrv) ==
    \E r \in DOMAIN rooms : \E h \in hvac_modes :
        LET a == [room_id |-> r, hvac_mode |-> h]
            mode == mode_map_reverse_get(h)
            call == RoomModeCall(r, mode)
        IN  /\ HasEntity(r)
            /\ IF mode = None
               THEN HostReturn("async_set_hvac_mode", a)
               ELSE HostCall("async_set_hvac_mode", a, r, set_room_mode_rejects(call),
                             "api/setroomthermpoint", set_room_mode_data(home_id, call),
                             "mode", mode, tokenSrv, cmdSrv)

\* async_set_preset_mode, lines 179-194
async_set_preset_mode(presets, tokenSrv, cmdSrv) ==
    \E r \in DOMAIN rooms : \E preset_mode \in presets :
        LET a == [room_id |-> r, preset_mode |-> preset_mode]
            call == RoomModeCall(r, preset_mode)
        IN  /\ HasEntity(r)
            /\ HostCall("async_set_preset_mode", a, r, set_room_mode_rejects(call),
                        "api/setroomthermpoint", set_room_mode_data(home_id, call),
                        "mode", preset_mode, tokenSrv, cmdSrv)

\* async_update, lines 196-206: get_homestatus, its exception logged
async_update(tokenSrv, configSrv, statusSrv) ==
    \E r \in DOMAIN rooms :
    \E tresp \in TokenAnswers(tokenSrv) :
    \E cresp \in AnswersIf(GetTokenResult(token, refresh_token, token_expiry, now,
                                          tresp).ok, configSrv) :
    \E sresp \in AnswersIf(GetTokenResult(token, refresh_token, token_expiry, now,
                                          tresp).ok /\ ~ConfigPullRefused(cresp),
                           statusSrv) :
        LET tk == GetTokenResult(token, refresh_token, token_expiry, now, tresp)
            res == HomestatusResult(tk, cresp, sresp)
        IN  /\ HasEntity(r)
            /\ tk.now <= MaxNow
            /\ token' = tk.token
            /\ refresh_token' = tk.refresh_token
            /\ token_expiry' = tk.token_expiry
            /\ now' = tk.now
            /\ tokenRet' = tk.ret
            /\ op' = "async_update"
            /\ args' = [room_id |-> r]
            /\ answer' = NoObj
            /\ reqs' = res.reqs
            /\ err' = res.err
            /\ homestatus' = res.homestatus
            /\ rooms' = res.rooms
            /\ water_heaters' = res.water_heaters
            /\ UNCHANGED <<homesdata, home_id, home_name, router_id>>

----------------------------------------------------------------------------
(* The server: the payloads the endpoints may answer with *)

SeqsUpTo(S, n) == UNION {[1..k -> S] : k \in 0..n}

\* homes[0].modules: a gateway, two heating modules, two water-heater
\* modules and a module of a type the loader does not know
ModuleTable ==
    << [id |-> "g1", type |-> "NMG", name |-> "gateway"],
       [id |-> "m1", type |-> "NMH", name |-> "radiator 1"],
       [id |-> "m2", type |-> "NMH", name |-> "radiator 2"],
       [id |-> "w1", type |-> "NMW", name |-> "boiler 1"],
       [id |-> "w2", type |-> "NMW", name |-> "boiler 2"],
       [id |-> "x1", type |-> "NXX", name |-> "plug"] >>

\* the module ids the binding lists are built from
BindIds == {"m1", "w1", "x1"}

\* further binding lists: two water heaters and two heating modules in both
\* orders, "zz", the id of no module record, and the gateway
MoreBindings ==
    { <<"w1", "w2">>, <<"w2", "w1">>, <<"w2">>, <<"m1", "m2">>, <<"m2", "m1">>,
      <<"zz">>, <<"zz", "w1">>, <<"m1", "zz">>, <<"g1", "w1">> }

RoomEntry(id, name, module_ids) ==
    [id |-> id, name |-> name, type |-> "livingroom", module_ids |-> module_ids]

\* a room entry without the module_ids key
UnboundRoomEntry(id, name) == [id |-> id, name |-> name, type |-> "livingroom"]

HomesPayload(homes) == [body |-> [homes |-> homes]]

HomeEntry(roomList) ==
    [id |-> "h1", name |-> "Home", modules |-> ModuleTable, rooms |-> roomList]

\* room lists: the one room r1 with every binding list of up to MaxBind ids
\* or no module_ids key, and r1 followed by a second room r2
RoomLists ==
    {<<RoomEntry("r1", "Living", b)>> : b \in SeqsUpTo(BindIds, MaxBind) \cup MoreBindings}
    \cup {<<UnboundRoomEntry("r1", "Living")>>}
    \cup {<<RoomEntry("r1", "Living", b1), RoomEntry("r2", "Bath", b2)>> :
            b1 \in {<<"m1">>, <<"w1">>, <<"x1">>},
            b2 \in {<<"w2">>, <<"m2", "w1">>}}

\* every 2xx topology payload: an account without homes, or one home
Topologies ==
    {HomesPayload(<<>>)} \cup {HomesPayload(<<HomeEntry(rl)>>) : rl \in RoomLists}

\* a few topology payloads, for runs that explore the token cache
FewTopologies ==
    { HomesPayload(<<>>),
      HomesPayload(<<HomeEntry(<<RoomEntry("r1", "Living", <<"m1", "w1">>)>>)>>) }

\* the topology payloads of the runs that explore the status payloads
SomeTopologies ==
    FewTopologies
    \cup { HomesPayload(<<HomeEntry(<<RoomEntry("r1", "Living", <<"m1">>),
                                       RoomEntry("r2", "Bath", <<"m2", "w2">>)>>)>>) }

\* a 2xx answer for each payload, and a refusal
Answers(payloads) ==
    {[status |-> 200, body |-> p] : p \in payloads}
    \cup {[status |-> 500, body |-> NoObj]}

\* status entries of rooms: complete, without energy, with nothing but the
\* id, and of the second room
RoomStatusFull ==
    [id |-> "r1", therm_measured_temperature |-> "19",
     therm_setpoint_temperature |-> "21", therm_setpoint_mode |-> "manual",
     heating_power_request |-> "100", energy |-> "5"]

RoomStatusNoEnergy ==
    [id |-> "r1", therm_measured_temperature |-> "18",
     therm_setpoint_temperature |-> "20", therm_setpoint_mode |-> "program",
     heating_power_request |-> "0"]

RoomStatusIdOnly == [id |-> "r1"]

\* a complete entry of a room whose setpoint has an end time
RoomStatusTimed ==
    [id |-> "r1", therm_measured_temperature |-> "19",
     therm_setpoint_temperature |-> "21", therm_setpoint_mode |-> "manual",
     therm_setpoint_end_time |-> 1700000000,
     heating_power_request |-> "100", energy |-> "5"]

RoomStatusPartial == [id |-> "r1", therm_setpoint_mode |-> "hg", energy |-> "7"]

RoomStatusOther ==
    [id |-> "r2", therm_measured_temperature |-> "17",
     therm_setpoint_temperature |-> "7", therm_setpoint_mode |-> "off",
     heating_power_request |-> "0", energy |-> "1"]

\* status records of modules: a water heater, the same id with another type,
\* a second water heater, a record whose id is a room's id, a heating module
ModuleStatusW1 ==
    [id |-> "w1", type |-> "NMW", boiler_status |-> "True",
     connection_status |-> "connected", contactor_mode |-> "auto",
     firmware_revision |-> "42", last_seen |-> "1700000000", bridge |-> "g1"]

ModuleStatusW1Heating ==
    [id |-> "w1", type |-> "NMH", firmware_revision |-> "7", bridge |-> "g1"]

ModuleStatusW2 ==
    [id |-> "w2", type |-> "NMW", boiler_status |-> "False",
     contactor_mode |-> "manual"]

ModuleStatusRoomId ==
    [id |-> "r1", type |-> "NMW", boiler_status |-> "False",
     contactor_mode |-> "manual", bridge |-> "g9"]

ModuleStatusM1 == [id |-> "m1", type |-> "NMH", bridge |-> "g1"]

StatusPayload(roomEntries, moduleEntries) ==
    [body |-> [home |-> [rooms |-> roomEntries, modules |-> moduleEntries]]]

RoomStatusLists ==
    { <<>>, <<RoomStatusFull>>, <<RoomStatusNoEnergy>>, <<RoomStatusIdOnly>>,
      <<RoomStatusPartial, RoomStatusFull>>, <<RoomStatusOther, RoomStatusNoEnergy>> }

ModuleStatusLists ==
    { <<>>, <<ModuleStatusM1, ModuleStatusW1>>, <<ModuleStatusW1Heating, ModuleStatusW1>>,
      <<ModuleStatusW1Heating>>, <<ModuleStatusW2>>, <<ModuleStatusRoomId>> }

\* every 2xx status payload
Statuses ==
    {StatusPayload(rl, ml) : rl \in RoomStatusLists, ml \in ModuleStatusLists}

\* a few status payloads, for runs that explore the token cache
FewStatuses ==
    { StatusPayload(<<RoomStatusFull>>, <<ModuleStatusW1>>),
      StatusPayload(<<>>, <<>>) }

\* the answers of the configuration-pull endpoint, whose body is discarded
ConfigAnswers == {[status |-> 200, body |-> NoObj], [status |-> 500, body |-> NoObj]}

\* the calls of the commands: a setpoint without end time, with the end
\* time 0 and with a later one
SetpointCalls ==
    { [room_id |-> "r1", temp |-> "19.5"],
      [room_id |-> "r1", temp |-> "19.5", end_time |-> 0],
      [room_id |-> "r1", temp |-> "19.5", end_time |-> 1700000000] }

RoomCalls == {[room_id |-> "r1"]}

\* every valid mode, with and without a temperature, and two other modes
ModeCalls ==
    { [room_id |-> "r1", mode |-> "program", temperature |-> None],
      [room_id |-> "r1", mode |-> "away", temperature |-> "21"],
      [room_id |-> "r1", mode |-> "hg", temperature |-> "21"],
      [room_id |-> "r1", mode |-> "manual", temperature |-> "21"],
      [room_id |-> "r1", mode |-> "manual", temperature |-> None],
      [room_id |-> "r1", mode |-> "off", temperature |-> "21"],
      [room_id |-> "r1", mode |-> "bogus", temperature |-> None] }

WaterHeaterCalls ==
    {[water_heater_id |-> "w1", mode |-> m] : m \in {"auto", "manual", "off"}}

\* a token endpoint that grants one token or refuses
CmdTokens ==
    { [status |-> 200, body |-> [access_token |-> "tokA", refresh_token |-> "refA",
                                 expires_in |-> 10800], latency |-> 0],
      [status |-> 401, body |-> [error |-> "invalid_grant"], latency |-> 0] }

\* the answers of the command endpoints
CmdAnswers ==
    { [status |-> 200, body |-> [status |-> "ok"]],
      [status |-> 401, body |-> [error |-> "invalid_token"]] }

\* the topology of the runs that explore the commands
CmdTopologies ==
    { HomesPayload(<<HomeEntry(<<RoomEntry("r1", "Living", <<"m1", "w1">>)>>)>>) }

\* their status payloads
CmdStatuses ==
    { StatusPayload(<<RoomStatusTimed>>, <<ModuleStatusW1>>),
      StatusPayload(<<RoomStatusNoEnergy>>, <<ModuleStatusW1Heating>>) }

\* the calls of the queries: a known id, and the id of nothing
RoomQueries == {[room_id |-> "r1"], [room_id |-> "zz"]}

WaterHeaterQueries == {[water_heater_id |-> "w1"], [water_heater_id |-> "zz"]}

\* time passes between two operations: no operation is running
Tick ==
    /\ now + Step <= MaxNow
    /\ now' = now + Step
    /\ op' = "idle"
    /\ reqs' = <<>>
    /\ err' = "none"
    /\ tokenRet' = None
    /\ args' = NoArgs
    /\ answer' = NoObj
    /\ UNCHANGED clientState

\* do_init, lines 48-65
Init ==
    /\ token = None
    /\ refresh_token = None
    /\ token_expiry = NoExpiry
    /\ homesdata = NoObj
    /\ home_id = None
    /\ home_name = None
    /\ router_id = None
    /\ homestatus = NoObj
    /\ rooms = EmptyMap
    /\ water_heaters = EmptyMap
    /\ now = 0
    /\ op = "do_init"
    /\ reqs = <<>>
    /\ err = "none"
    /\ tokenRet = None
    /\ args = NoArgs
    /\ answer = NoObj

\* the client against a token endpoint that may refuse, with time passing
Next ==
    \/ Tick
    \/ _get_token(TokenResponses)
    \/ get_homesdata(TokenResponses, Answers(FewTopologies))
    \/ get_homestatus(TokenResponses, ConfigAnswers, Answers(FewStatuses))

Spec == Init /\ [][Next]_vars

\* the client against every topology payload, the token endpoint granting
NextTopo ==
    \/ get_homesdata(TokenGranted, Answers(Topologies))
    \/ get_homestatus(TokenGranted, ConfigAnswers, Answers(FewStatuses))

SpecTopo == Init /\ [][NextTopo]_vars

\* the client against every status payload, the token endpoint granting
NextStatus ==
    \/ get_homesdata(TokenGranted, Answers(SomeTopologies))
    \/ get_homestatus(TokenGranted, ConfigAnswers, Answers(Statuses))

SpecStatus == Init /\ [][NextStatus]_vars

\* the client, its commands and its queries, with time passing
NextCmd ==
    \/ Tick
    \/ get_homesdata(CmdTokens, Answers(CmdTopologies))
    \/ get_homestatus(CmdTokens, ConfigAnswers, Answers(CmdStatuses))
    \/ set_room_setpoint(SetpointCalls, CmdTokens, CmdAnswers)
    \/ set_room_off(RoomCalls, CmdTokens, CmdAnswers)
    \/ set_room_hg(RoomCalls, CmdTokens, CmdAnswers)
    \/ set_room_mode(ModeCalls, CmdTokens, CmdAnswers)
    \/ set_water_heater_mode(WaterHeaterCalls, CmdTokens, CmdAnswers)
    \/ get_room_mode(RoomQueries, CmdTokens, ConfigAnswers, Answers(CmdStatuses))
    \/ get_room_setpoint(RoomQueries, CmdTokens, ConfigAnswers, Answers(CmdStatuses))
    \/ get_room_temperature(RoomQueries, CmdTokens, ConfigAnswers, Answers(CmdStatuses))
    \/ get_water_heater_mode(WaterHeaterQueries, CmdTokens, ConfigAnswers,
                             Answers(CmdStatuses))

SpecCmd == Init /\ [][NextCmd]_vars

\* the client pulling its data again and again, with time passing
NextPull ==
    \/ Tick
    \/ pull_data(CmdTokens, Answers(FewTopologies), ConfigAnswers, Answers(CmdStatuses))

SpecPull == Init /\ [][NextPull]_vars

\* what the host layer asks of its entities
HostTemperatures == {None, "19.5"}

HostHvacModes == {"auto", "heat", "off", "cool"}

\* the host layer: the platform is set up, then the handlers of the entities
\* run, with time passing
NextHost ==
    \/ Tick
    \/ async_setup_platform(CmdTokens, Answers(CmdTopologies), ConfigAnswers,
                            Answers(CmdStatuses))
    \/ async_set_temperature(HostTemperatures, CmdTokens, CmdAnswers)
    \/ async_set_hvac_mode(HostHvacModes, CmdTokens, CmdAnswers)
    \/ async_set_preset_mode(preset_modes, CmdTokens, CmdAnswers)
    \/ async_update(CmdTokens, ConfigAnswers, Answers(CmdStatuses))

SpecHost == Init /\ [][NextHost]_vars

----------------------------------------------------------------------------
(* Properties *)

\* the operations that start by calling _get_token
TokenOps == {"_get_token", "get_homesdata", "get_homestatus"}

\* the exchanges of a log made with the token endpoint
TokenExchanges(log) == {i \in 1..Len(log) : log[i].endpoint = "oauth2/token"}

\* C1: whenever the client holds a token and the clock is strictly before its
\* expiry, an operation's _get_token returns that token, asks the token
\* endpoint nothing and leaves token, refresh token and expiry as they were.
C1_CachedTokenReused ==
    [][ (op' \in TokenOps /\ Truthy(token) /\ now < token_expiry)
        => /\ tokenRet' = token
           /\ TokenExchanges(reqs') = {}
           /\ UNCHANGED <<token, refresh_token, token_expiry>> ]_vars

\* C1 happens: after an exchange at an earlier time, a topology load has run
\* on the cached token, with no exchange of its own
C1_Witness ==
    /\ op = "get_homesdata"
    /\ now > 0 /\ now < token_expiry
    /\ token_expiry = TokenLifetime
    /\ Truthy(token) /\ tokenRet = token
    /\ Len(reqs) = 1 /\ reqs[1].endpoint = "api/homesdata"

\* C2: when _get_token runs without a cached token, or at or after the
\* expiry, it makes exactly one exchange with the token endpoint, and when
\* that is answered with success the answer's access token and refresh token
\* are cached and the expiry is the time of the exchange plus 3600 seconds,
\* whatever lifetime the answer announces.
C2_ExchangeOnMissOrExpiry ==
    [][ (op' \in TokenOps /\ (~Truthy(token) \/ now >= token_expiry))
        => /\ Cardinality(TokenExchanges(reqs')) = 1
           /\ reqs'[1].endpoint = "oauth2/token"
           /\ reqs'[1].status < 400
              => /\ token' = Get(reqs'[1].answer, "access_token")
                 /\ refresh_token' = Get(reqs'[1].answer, "refresh_token")
                 /\ tokenRet' = token'
                 /\ token_expiry' = now' + 3600 ]_vars

\* C2 happens: a token that had expired was replaced by another one, the
\* server announcing a lifetime other than 3600 seconds
C2_Witness ==
    /\ op = "get_homestatus"
    /\ Len(reqs) = 3 /\ reqs[1].endpoint = "oauth2/token"
    /\ token = "tokB" /\ refresh_token = "refB"
    /\ reqs[1].answer.expires_in = 1800
    /\ now >= 2 * TokenLifetime
    /\ token_expiry = now + TokenLifetime

\* C3: when the token endpoint answers with a non-success status, the
\* operation ends with a transport error after that one exchange, a password
\* grant; token, refresh token and expiry keep their values and nothing is
\* sent to the operation's own endpoint.
C3_TokenRefusalPropagates ==
    [][ (op' \in TokenOps /\ TokenExchanges(reqs') # {}
         /\ \E i \in TokenExchanges(reqs') : reqs'[i].status >= 400)
        => /\ err' = "HTTPError"
           /\ Len(reqs') = 1
           /\ reqs'[1].grant = "password"
           /\ UNCHANGED <<token, refresh_token, token_expiry>> ]_vars

\* C3 happens: a status refresh was refused a new token after the cached one
\* had expired, and the expired token is still cached
C3_Witness ==
    /\ op = "get_homestatus" /\ err = "HTTPError"
    /\ Len(reqs) = 1 /\ reqs[1].endpoint = "oauth2/token" /\ reqs[1].status = 401
    /\ token = "tokA" /\ now >= token_expiry /\ token_expiry > 0

----------------------------------------------------------------------------
(* Properties of the topology load *)

\* the last operation was a topology load answered with 2xx
LoadAnswered ==
    /\ op = "get_homesdata"
    /\ reqs # <<>>
    /\ reqs[Len(reqs)].endpoint = "api/homesdata"
    /\ reqs[Len(reqs)].status < 400

\* the last operation was a topology load that returned
Loaded == op = "get_homesdata" /\ err = "none"

\* the room entries of the stored topology
StoredRoomEntries ==
    LET rl == homesdata.body.homes[1].rooms IN {rl[i] : i \in 1..Len(rl)}

\* the positions of the binding list of a room entry whose id is the id of
\* a module record of the given type in the stored topology
BoundOfType(entry, type) ==
    LET modules == homesdata.body.homes[1].modules
    IN  IF "module_ids" \in DOMAIN entry
        THEN {j \in 1..Len(entry.module_ids) :
                \E i \in 1..Len(modules) :
                    modules[i].id = entry.module_ids[j] /\ modules[i].type = type}
        ELSE {}

\* C4: after a successful load a Room is registered under r exactly when a
\* room entry r binds a module id of a heating (NMH) record, and a
\* WaterHeater is registered under r exactly when a room entry r binds a
\* module id of a water-heater (NMW) record.
C4_RegisteredIffBound ==
    Loaded =>
        \A r \in {"r1", "r2"} :
            /\ r \in DOMAIN rooms
                <=> \E e \in StoredRoomEntries : e.id = r /\ BoundOfType(e, "NMH") # {}
            /\ r \in DOMAIN water_heaters
                <=> \E e \in StoredRoomEntries : e.id = r /\ BoundOfType(e, "NMW") # {}

\* the Room half of C4, which the loader keeps
C4_RoomsIffBound ==
    Loaded =>
        \A r \in {"r1", "r2"} :
            r \in DOMAIN rooms
                <=> \E e \in StoredRoomEntries : e.id = r /\ BoundOfType(e, "NMH") # {}

\* C5: no two WaterHeaters belong to the same room, and after a successful
\* load the WaterHeater of a room that binds water-heater modules is the
\* fresh one built from the first of them in binding order.
C5_FirstWaterHeaterWins ==
    /\ \A k1, k2 \in DOMAIN water_heaters :
            water_heaters[k1].room_id = water_heaters[k2].room_id => k1 = k2
    /\ Loaded =>
            \A e \in StoredRoomEntries :
                BoundOfType(e, "NMW") # {}
                    => /\ e.id \in DOMAIN water_heaters
                       /\ water_heaters[e.id] =
                            IntuisWaterHeater(e.module_ids[Min(BoundOfType(e, "NMW"))],
                                              e.name, e.id)

\* C5 happens: a room that binds w2 before w1 got the heater of w2
C5_Witness ==
    /\ Loaded
    /\ \E e \in StoredRoomEntries : e.id = "r1" /\ HasBindings(e) /\ e.module_ids = <<"w2", "w1">>
    /\ "r1" \in DOMAIN water_heaters
    /\ water_heaters["r1"].id = "w2"

\* C8: a load answered with 2xx and an empty home list ends with a
\* configuration error, the ValueError of missing credentials.
C8_EmptyHomeListIsConfigError ==
    (LoadAnswered /\ homesdata.body.homes = <<>>) => err = "ValueError"

\* the stored topology without the bindings to modules of other types than
\* heating and water heater
WithoutOtherModules(payload) ==
    LET home == payload.body.homes[1]
        known(module_id) ==
            \A i \in 1..Len(home.modules) :
                home.modules[i].id = module_id => home.modules[i].type \in {"NMH", "NMW"}
        strip(entry) ==
            IF "module_ids" \in DOMAIN entry
            THEN [entry EXCEPT !.module_ids = SelectSeq(@, known)]
            ELSE entry
    IN  [body |-> [homes |-> <<[home EXCEPT !.rooms = [i \in 1..Len(@) |-> strip(@[i])]]>>]]

\* C9: a load whose payload binds modules of other types returns, and
\* registers the rooms and water heaters that the same payload without
\* those bindings registers.
C9_OtherModulesSkipped ==
    [][ (LoadAnswered' /\ homesdata'.body.homes # <<>>)
        => /\ err' = "none"
           /\ LET old == [homesdata |-> homesdata, home_id |-> home_id,
                           home_name |-> home_name, router_id |-> router_id,
                           rooms |-> rooms, water_heaters |-> water_heaters,
                           err |-> "none"]
                  without == ParseHomesdata(old, WithoutOtherModules(homesdata'))
              IN  /\ rooms' = without.rooms
                  /\ water_heaters' = without.water_heaters
                  /\ router_id' = without.router_id ]_vars

\* C9 happens: a room that binds the plug x1 and the radiator m1 was
\* registered with m1 alone
C9_Witness ==
    /\ Loaded
    /\ \E e \in StoredRoomEntries : e.id = "r1" /\ HasBindings(e) /\ e.module_ids = <<"x1", "m1">>
    /\ "r1" \in DOMAIN rooms
    /\ Len(rooms["r1"].associated_modules) = 1
    /\ rooms["r1"].associated_modules[1].id = "m1"

----------------------------------------------------------------------------
(* Properties of the status refresh *)

\* the last operation was a status refresh that returned
Refreshed == op = "get_homestatus" /\ err = "none"

\* the ids of the water-heater module records of the server's module table
WaterHeaterModuleIds ==
    {ModuleTable[i].id : i \in {j \in 1..Len(ModuleTable) : ModuleTable[j].type = "NMW"}}

C7_OnlyWaterHeaterRecordsMerge ==
    [][ Refreshed'
        => \A k \in DOMAIN water_heaters :
              LET recs == homestatus'.body.home.modules
                  hits == {i \in 1..Len(recs) :
                              recs[i].id = water_heaters[k].id /\ recs[i].type = "NMW"}
              IN  water_heaters'[k] =
                      IF hits = {} THEN water_heaters[k]
                      ELSE IntuisWaterHeater_update_status(water_heaters[k], recs[Min(hits)]) ]_vars

\* the status key behind each status field of a Room
StatusKey ==
    [current_temp |-> "therm_measured_temperature",
     target_temp |-> "therm_setpoint_temperature",
     mode |-> "therm_setpoint_mode",
     heating_power |-> "heating_power_request",
     energy_consumption |-> "energy"]

\* C10 as the specification states it: a refresh leaves every status field
\* of a matched Room that is absent from its entry as it was.
C10_AbsentFieldsKept ==
    [][ Refreshed'
        => \A k \in DOMAIN rooms :
              LET entry == FirstWithId(homestatus'.body.home.rooms, rooms[k].id)
              IN  entry # NoObj
                    => \A f \in DOMAIN StatusKey :
                          StatusKey[f] \notin DOMAIN entry => rooms'[k][f] = rooms[k][f] ]_vars

\* C10, amended: a refresh sets current temperature, target temperature,
\* mode and heating power of a matched Room to the entry's value, unset when
\* the entry lacks the field; energy alone keeps its value when the entry
\* lacks it; id, name, type and modules are not touched.
C10_OnlyEnergyKeptWhenAbsent ==
    [][ Refreshed'
        => \A k \in DOMAIN rooms :
              LET entry == FirstWithId(homestatus'.body.home.rooms, rooms[k].id)
              IN  entry # NoObj
                    => /\ \A f \in DOMAIN StatusKey \ {"energy_consumption"} :
                            rooms'[k][f] = Get(entry, StatusKey[f])
                       /\ rooms'[k].energy_consumption =
                            IF "energy" \in DOMAIN entry THEN entry["energy"]
                            ELSE rooms[k].energy_consumption
                       /\ \A f \in {"id", "name", "type", "associated_modules"} :
                            rooms'[k][f] = rooms[k][f] ]_vars

\* C10 happens: an entry with nothing but the id followed a complete one;
\* the energy is kept and the other fields are unset
C10_Witness ==
    /\ Refreshed
    /\ homestatus.body.home.rooms = <<RoomStatusIdOnly>>
    /\ "r1" \in DOMAIN rooms
    /\ rooms["r1"].energy_consumption = "5"
    /\ rooms["r1"].current_temp = None
    /\ rooms["r1"].mode = None

\* C11: a refresh overwrites a Room's energy consumption with the energy of
\* the first status entry of the room's id exactly when that entry has the
\* energy field; a refresh whose entry lacks the field, or that finds no
\* entry, or that fails, leaves the stored energy in place.
C11_EnergyOverwrittenIffPresent ==
    [][ op' = "get_homestatus"
        => /\ DOMAIN rooms' = DOMAIN rooms
           /\ \A k \in DOMAIN rooms :
                LET entries == IF err' = "none" THEN homestatus'.body.home.rooms ELSE <<>>
                    entry == FirstWithId(entries, rooms[k].id)
                    present == entry # NoObj /\ "energy" \in DOMAIN entry
                IN  rooms'[k].energy_consumption =
                        IF present THEN entry["energy"] ELSE rooms[k].energy_consumption ]_vars

\* C11 happens: the energy 7 an entry brought has outlived a refresh whose
\* entry for the room has the other fields and no energy
C11_Witness ==
    /\ Refreshed
    /\ homestatus.body.home.rooms = <<RoomStatusNoEnergy>>
    /\ "r1" \in DOMAIN rooms
    /\ rooms["r1"].energy_consumption = "7"
    /\ rooms["r1"].current_temp = "18"

\* the last operation was a status refresh whose requests were all answered
\* with success
RefreshAnswered ==
    /\ op = "get_homestatus"
    /\ reqs # <<>>
    /\ reqs[Len(reqs)].endpoint = "syncapi/v1/homestatus"
    /\ reqs[Len(reqs)].status < 400

\* C12: a refresh answered with success returns without error; a Room or
\* WaterHeater whose id no entry of the payload carries keeps every field,
\* and the entities that have an entry are merged all the same.
C12_UnmatchedEntityUntouched ==
    [][ RefreshAnswered'
        => /\ err' = "none"
           /\ DOMAIN rooms' = DOMAIN rooms
           /\ DOMAIN water_heaters' = DOMAIN water_heaters
           /\ \A k \in DOMAIN rooms :
                LET entry == FirstWithId(homestatus'.body.home.rooms, rooms[k].id)
                IN  rooms'[k] = IF entry = NoObj THEN rooms[k]
                                ELSE IntuisRoom_update_status(rooms[k], entry)
           /\ \A k \in DOMAIN water_heaters :
                LET entry == FirstWithId(homestatus'.body.home.modules, water_heaters[k].id)
                IN  /\ entry = NoObj => water_heaters'[k] = water_heaters[k]
                    /\ (entry # NoObj /\ entry.type = "NMW")
                        => water_heaters'[k] =
                              IntuisWaterHeater_update_status(water_heaters[k], entry) ]_vars

\* C12 happens: a payload with entries for room r1 and heater w1 alone was
\* merged; room r2 and its heater w2 keep what an earlier refresh gave them
C12_Witness ==
    /\ Refreshed
    /\ homestatus.body.home.rooms = <<RoomStatusFull>>
    /\ homestatus.body.home.modules = <<ModuleStatusM1, ModuleStatusW1>>
    /\ "r1" \in DOMAIN rooms /\ rooms["r1"].mode = "manual"
    /\ "r2" \in DOMAIN rooms /\ rooms["r2"].mode = "off"
    /\ "r1" \in DOMAIN water_heaters /\ water_heaters["r1"].contactor_mode = "auto"
    /\ "r2" \in DOMAIN water_heaters /\ water_heaters["r2"].contactor_mode = "manual"

\* the exchanges of a log made with the given endpoint
ExchangesWith(log, endpoint) == {i \in 1..Len(log) : log[i].endpoint = endpoint}

\* C13: a refresh that holds a token asks the configuration pull once and
\* the status endpoint at most once, and only after the configuration pull
\* was answered with success; when either of the two is answered with a
\* non-success status the refresh ends with a transport error, the status
\* snapshot is the one stored before and no Room or WaterHeater has changed.
C13_ConfigPullBeforeStatus ==
    [][ op' = "get_homestatus"
        => LET pulls == ExchangesWith(reqs', "syncapi/v1/getconfigs")
               asks == ExchangesWith(reqs', "syncapi/v1/homestatus")
               refused(S) == \E i \in S : reqs'[i].status >= 400
           IN  /\ Cardinality(asks) <= 1
               /\ Cardinality(pulls) = IF refused(TokenExchanges(reqs')) THEN 0 ELSE 1
               /\ \A j \in asks : \E i \in pulls : i < j /\ reqs'[i].status < 400
               /\ refused(pulls) => asks = {}
               /\ ~refused(pulls \cup TokenExchanges(reqs')) => asks # {}
               /\ refused(pulls \cup asks)
                    => /\ err' = "HTTPError"
                       /\ UNCHANGED <<homestatus, rooms, water_heaters>> ]_vars

\* C13 happens: with a snapshot stored and room r1 filled from it, a refresh
\* was refused at the configuration pull and asked nothing after it
C13_Witness ==
    /\ op = "get_homestatus" /\ err = "HTTPError"
    /\ Len(reqs) = 1
    /\ reqs[1].endpoint = "syncapi/v1/getconfigs" /\ reqs[1].status = 500
    /\ homestatus # NoObj
    /\ "r1" \in DOMAIN rooms /\ rooms["r1"].mode = "manual"

----------------------------------------------------------------------------
(* Properties of the commands *)

CommandOps ==
    {"set_room_setpoint", "set_room_off", "set_room_hg", "set_room_mode",
     "set_water_heater_mode"}

\* the last operation sent a request of its own, after _get_token
OwnRequestSent == reqs # <<>> /\ reqs[Len(reqs)].endpoint # "oauth2/token"

\* that request
OwnRequest == reqs[Len(reqs)]

\* the one room entry of a command's data
SentRoom == OwnRequest.body.home.rooms[1]

\* C14: the request of set_room_setpoint carries mode manual and the
\* caller's temperature, and has the end-time field exactly when the caller
\* gave an end time, 0 included, with the value given.
C14_EndTimeSentIffSupplied ==
    (op = "set_room_setpoint" /\ OwnRequestSent)
        => /\ Len(OwnRequest.body.home.rooms) = 1
           /\ SentRoom.id = args.room_id
           /\ SentRoom.therm_setpoint_mode = "manual"
           /\ SentRoom.therm_setpoint_temperature = args.temp
           /\ "therm_setpoint_end_time" \in DOMAIN SentRoom <=> "end_time" \in DOMAIN args
           /\ "therm_setpoint_end_time" \in DOMAIN SentRoom
                => SentRoom.therm_setpoint_end_time = args.end_time

\* the part of C14 that set_room_setpoint keeps: mode, temperature, and the
\* end time when it is not 0
C14_EndTimeSentIfNotZero ==
    (op = "set_room_setpoint" /\ OwnRequestSent)
        => /\ SentRoom.therm_setpoint_mode = "manual"
           /\ SentRoom.therm_setpoint_temperature = args.temp
           /\ "therm_setpoint_end_time" \in DOMAIN SentRoom
                <=> ("end_time" \in DOMAIN args /\ args.end_time # 0)
           /\ "therm_setpoint_end_time" \in DOMAIN SentRoom
                => SentRoom.therm_setpoint_end_time = args.end_time

\* C15: a set_room_mode call with a mode outside program, away, hg and
\* manual, or with manual and no temperature, and a set_water_heater_mode
\* call with a mode outside auto and manual, ends with a validation error,
\* sends nothing, not even to the token endpoint, and leaves the token cache,
\* the topology, the snapshot and the entities as they were.
C15_RejectedCallSendsNothing ==
    [][ ( \/ /\ op' = "set_room_mode"
             /\ \/ args'.mode \notin {"program", "away", "hg", "manual"}
                \/ args'.mode = "manual" /\ args'.temperature = None
          \/ /\ op' = "set_water_heater_mode"
             /\ args'.mode \notin {"auto", "manual"} )
        => /\ err' = "ValueError"
           /\ reqs' = <<>>
           /\ UNCHANGED clientState ]_vars

\* C15 happens: manual without a temperature was rejected while the cached
\* token had expired, and the expired token is still the cached one
C15_Witness ==
    /\ op = "set_room_mode" /\ err = "ValueError"
    /\ args.mode = "manual" /\ args.temperature = None
    /\ reqs = <<>>
    /\ token = "tokA" /\ now >= token_expiry
    /\ "r1" \in DOMAIN rooms

\* C16: the request of an accepted set_room_mode call carries the caller's
\* mode, and has the temperature field exactly when the mode is manual, with
\* the caller's temperature; a temperature given with program, away or hg is
\* not sent.
C16_TemperatureSentIffManual ==
    (op = "set_room_mode" /\ OwnRequestSent)
        => /\ args.mode \in {"program", "away", "hg", "manual"}
           /\ SentRoom.id = args.room_id
           /\ SentRoom.therm_setpoint_mode = args.mode
           /\ "therm_setpoint_temperature" \in DOMAIN SentRoom <=> args.mode = "manual"
           /\ args.mode = "manual"
                => /\ args.temperature # None
                   /\ SentRoom.therm_setpoint_temperature = args.temperature

\* C16 happens: frost protection was asked for with a temperature, and the
\* request the server acknowledged has none
C16_Witness ==
    /\ op = "set_room_mode" /\ err = "none"
    /\ args.mode = "hg" /\ args.temperature = "21"
    /\ OwnRequestSent
    /\ OwnRequest.status = 200
    /\ DOMAIN SentRoom = {"id", "therm_setpoint_mode"}

\* C17: set_room_off sends mode off and temperature 7 to the set-state
\* endpoint, set_room_hg sends mode hg and temperature 7 to the
\* set-room-thermpoint endpoint, whatever temperature the room holds.
C17_OffAndFrostProtectionFixed ==
    /\ (op = "set_room_off" /\ OwnRequestSent)
            => /\ OwnRequest.endpoint = "syncapi/v1/setstate"
               /\ OwnRequest.body =
                    [home |-> [id |-> home_id,
                               rooms |-> <<[id |-> args.room_id,
                                            therm_setpoint_mode |-> "off",
                                            therm_setpoint_temperature |-> "7"]>>]]
    /\ (op = "set_room_hg" /\ OwnRequestSent)
            => /\ OwnRequest.endpoint = "api/setroomthermpoint"
               /\ OwnRequest.body =
                    [home |-> [id |-> home_id,
                               rooms |-> <<[id |-> args.room_id,
                                            therm_setpoint_mode |-> "hg",
                                            therm_setpoint_temperature |-> "7"]>>]]

\* C17 happens: room r1, whose stored target is 21, was switched off with
\* temperature 7
C17_Witness ==
    /\ op = "set_room_off" /\ err = "none"
    /\ "r1" \in DOMAIN rooms /\ rooms["r1"].target_temp = "21"
    /\ OwnRequestSent
    /\ OwnRequest.endpoint = "syncapi/v1/setstate"
    /\ SentRoom.id = "r1"
    /\ SentRoom.therm_setpoint_temperature = "7"

\* C18: no command, whether it returns, is refused or is rejected, changes
\* the stored topology, the home and router ids, a Room, a WaterHeater, the
\* entity maps or the status snapshot.
C18_CommandsTouchTokenCacheOnly ==
    [][ op' \in CommandOps
        => UNCHANGED <<homesdata, home_id, home_name, router_id, rooms,
                       water_heaters, homestatus>> ]_vars

\* C18 happens: the server acknowledged the setpoint 19.5 for room r1, and
\* the Room still holds the target and mode of the last refresh
C18_Witness ==
    /\ op = "set_room_setpoint" /\ err = "none"
    /\ OwnRequestSent /\ OwnRequest.status = 200
    /\ args.room_id = "r1" /\ args.temp = "19.5"
    /\ "r1" \in DOMAIN rooms
    /\ rooms["r1"].target_temp = "20" /\ rooms["r1"].mode = "program"

\* the operations that send requests with a bearer
BearerOps == CommandOps \cup {"get_homesdata", "get_homestatus"}

\* the exchanges of a log answered with a non-success status by another
\* endpoint than the token endpoint
RefusedWithBearer(log) ==
    {i \in 1..Len(log) : log[i].endpoint # "oauth2/token" /\ log[i].status >= 400}

\* C19: a request with a bearer that is answered with a non-success status
\* is the operation's last request and the only one to its endpoint, and the
\* operation ends with a transport error; the bearer it was made with stays
\* cached with its expiry.  Any operation run while a token is cached and
\* the clock is before its expiry, the one after a refusal like any other,
\* sends that token and asks the token endpoint nothing.
C19_RefusalKeepsToken ==
    [][ op' \in BearerOps
        => /\ \A i \in RefusedWithBearer(reqs') :
                /\ err' = "HTTPError"
                /\ i = Len(reqs')
                /\ Cardinality(ExchangesWith(reqs', reqs'[i].endpoint)) = 1
                /\ token' = reqs'[i].bearer
                /\ TokenExchanges(reqs') = {}
                    => UNCHANGED <<token, refresh_token, token_expiry>>
           /\ (Truthy(token) /\ now < token_expiry /\ reqs' # <<>>)
                => /\ TokenExchanges(reqs') = {}
                   /\ \A i \in 1..Len(reqs') : reqs'[i].bearer = token
                   /\ UNCHANGED <<token, refresh_token, token_expiry>> ]_vars

\* C19 happens: a command sent the cached token, was answered 401, and the
\* token is still cached and not expired
C19_Witness ==
    /\ op = "set_room_setpoint" /\ err = "HTTPError"
    /\ Len(reqs) = 1 /\ reqs[1].endpoint = "syncapi/v1/setstate"
    /\ reqs[1].status = 401 /\ reqs[1].bearer = "tokA"
    /\ token = "tokA" /\ now > 0 /\ now < token_expiry

----------------------------------------------------------------------------
(* Properties of the queries *)

RoomQueryOps == {"get_room_mode", "get_room_setpoint", "get_room_temperature"}

QueryOps == RoomQueryOps \cup {"get_water_heater_mode"}

\* the id a query with arguments a of operation o asks for is absent from
\* the snapshot: no room entry has it, or no water-heater module record
AbsentFrom(status, o, a) ==
    IF o \in RoomQueryOps
    THEN \A i \in 1..Len(status.body.home.rooms) :
            status.body.home.rooms[i].id # a.room_id
    ELSE \A i \in 1..Len(status.body.home.modules) :
            ~ /\ status.body.home.modules[i].id = a.water_heater_id
              /\ status.body.home.modules[i].type = "NMW"

\* C20 as the specification states it: a query for an id absent from the
\* snapshot it reads ends with a lookup error and changes no client state;
\* with a snapshot stored it sends nothing.
C20_AbsentIdChangesNothing ==
    [][ op' \in QueryOps
        => /\ (homestatus' # NoObj /\ AbsentFrom(homestatus', op', args'))
                => /\ err' = "ValueError"
                   /\ UNCHANGED clientState
           /\ homestatus # NoObj => reqs' = <<>> ]_vars

\* C20, amended: with a snapshot stored, a query reads that snapshot, sends
\* nothing and changes no client state, and ends with a lookup error exactly
\* when the id is absent from it, a module record of the id and of another
\* type than water heater counting as absent.  Without a stored snapshot the
\* query first refreshes the status: it sends the refresh's requests, ends
\* with the refresh's transport error when it has one, and otherwise reads
\* the snapshot the refresh stored.
C20_StoredSnapshotAnswersLocally ==
    [][ op' \in QueryOps
        => /\ homestatus # NoObj
                => /\ reqs' = <<>>
                   /\ UNCHANGED clientState
                   /\ err' = "ValueError" <=> AbsentFrom(homestatus, op', args')
           /\ homestatus = NoObj
                => /\ reqs' # <<>>
                   /\ ExchangesWith(reqs', "syncapi/v1/homestatus") = {}
                        => err' = "HTTPError" /\ homestatus' = NoObj
                   /\ homestatus' # NoObj
                        => /\ homestatus' = reqs'[Len(reqs')].answer
                           /\ err' = "ValueError" <=> AbsentFrom(homestatus', op', args')
           /\ (err' = "none" /\ op' = "get_room_temperature")
                => answer'.value =
                      FirstWithId(homestatus'.body.home.rooms,
                                  args'.room_id).therm_measured_temperature
           /\ (err' = "none" /\ op' = "get_water_heater_mode")
                => \E i \in 1..Len(homestatus'.body.home.modules) :
                      /\ homestatus'.body.home.modules[i].id = args'.water_heater_id
                      /\ homestatus'.body.home.modules[i].type = "NMW"
                      /\ answer'.value = homestatus'.body.home.modules[i].contactor_mode ]_vars

\* C20 happens: with a snapshot stored whose only record of w1 is of heating
\* type, the mode of water heater w1 was asked for and not found, without a
\* request
C20_Witness ==
    /\ op = "get_water_heater_mode" /\ err = "ValueError"
    /\ args.water_heater_id = "w1"
    /\ reqs = <<>>
    /\ homestatus # NoObj
    /\ homestatus.body.home.modules = <<ModuleStatusW1Heating>>

----------------------------------------------------------------------------
(* Properties of the reload, of the initial pull and of the token in use *)

\* the {id, name, type} of the heating modules a room entry binds, in
\* binding order, read from the stored topology
HeatingModulesOf(entry) ==
    LET modules == homesdata.body.homes[1].modules
        pos == BoundOfType(entry, "NMH")
        nth(k) == CHOOSE p \in pos : Cardinality({q \in pos : q < p}) = k - 1
        record(id) == LET m == FindModule(modules, id)
                      IN  [id |-> m.id, name |-> m.name, type |-> m.type]
    IN  [k \in 1..Cardinality(pos) |-> record(entry.module_ids[nth(k)])]

\* C21: after a successful load the Room map holds exactly the rooms whose
\* entry in the loaded payload binds a heating module, and each of them is a
\* fresh Room: id, name and type of the entry, status fields unset, and as
\* modules the heating modules the entry binds, in binding order.
C21_RoomsRecreatedOnLoad ==
    Loaded =>
        /\ \A r \in DOMAIN rooms :
              \E e \in StoredRoomEntries : e.id = r /\ BoundOfType(e, "NMH") # {}
        /\ \A e \in StoredRoomEntries :
              BoundOfType(e, "NMH") # {}
                => /\ e.id \in DOMAIN rooms
                   /\ rooms[e.id] =
                        [id |-> e.id, name |-> e.name, type |-> e.type,
                         current_temp |-> None, target_temp |-> None, mode |-> None,
                         heating_power |-> None, energy_consumption |-> None,
                         associated_modules |-> HeatingModulesOf(e)]

\* C21 happens: a reload (the heater of an earlier load of r1 holds the
\* status a refresh gave it) has left r1 a fresh Room with the modules m2
\* and m1 of the new payload, in that order
C21_Witness ==
    /\ Loaded
    /\ "r1" \in DOMAIN water_heaters /\ water_heaters["r1"].contactor_mode = "auto"
    /\ \E e \in StoredRoomEntries :
            e.id = "r1" /\ HasBindings(e) /\ e.module_ids = <<"m2", "m1">>
    /\ "r1" \in DOMAIN rooms
    /\ rooms["r1"].mode = None
    /\ Len(rooms["r1"].associated_modules) = 2
    /\ rooms["r1"].associated_modules[1].id = "m2"

\* C22: in pull_data the configuration pull and the status request come
\* after a topology request that was answered with success and a home; when
\* the topology load fails (no token, a non-success answer, an empty home
\* list) pull_data ends with that failure, neither of the two is sent, and
\* the snapshot, the Rooms and the WaterHeaters are what they were.
C22_TopologyBeforeStatus ==
    [][ op' = "pull_data"
        => LET loads == ExchangesWith(reqs', "api/homesdata")
               later == ExchangesWith(reqs', "syncapi/v1/getconfigs")
                        \cup ExchangesWith(reqs', "syncapi/v1/homestatus")
               loaded(i) == /\ reqs'[i].status < 400
                            /\ reqs'[i].answer.body.homes # <<>>
           IN  /\ Cardinality(loads) <= 1
               /\ \A j \in later : \E i \in loads : i < j /\ loaded(i)
               /\ (\A i \in loads : ~loaded(i))
                    => /\ later = {}
                       /\ err' # "none"
                       /\ UNCHANGED <<homestatus, rooms, water_heaters>>
               /\ (\E i \in loads : loaded(i)) => later # {} ]_vars

\* C22 happens: the first pull of a client was refused the topology, and
\* went no further
C22_Witness ==
    /\ op = "pull_data" /\ err = "HTTPError"
    /\ Len(reqs) = 2
    /\ reqs[1].endpoint = "oauth2/token" /\ reqs[1].status = 200
    /\ reqs[2].endpoint = "api/homesdata" /\ reqs[2].status = 500
    /\ homesdata = NoObj /\ homestatus = NoObj
    /\ rooms = EmptyMap

\* C24: after a successful load, a reload included, every WaterHeater of
\* the map is registered from the loaded payload: its key is a room entry of
\* the payload that binds a water-heater module, and none is kept from an
\* earlier load.
C24_NoStaleWaterHeater ==
    Loaded =>
        \A k \in DOMAIN water_heaters :
            \E e \in StoredRoomEntries :
                /\ e.id = k
                /\ BoundOfType(e, "NMW") # {}
                /\ water_heaters[k].id = e.module_ids[Min(BoundOfType(e, "NMW"))]

\* C25: a load whose topology request was refused, or answered with an
\* empty home list, leaves the stored topology, the home id, the home name,
\* the router id, the Rooms and the WaterHeaters as they were.
C25_FailedLoadChangesNothing ==
    [][ (/\ op' = "get_homesdata"
         /\ reqs' # <<>>
         /\ reqs'[Len(reqs')].endpoint = "api/homesdata"
         /\ \/ reqs'[Len(reqs')].status >= 400
            \/ reqs'[Len(reqs')].answer.body.homes = <<>>)
            => UNCHANGED <<homesdata, home_id, home_name, router_id,
                           rooms, water_heaters>> ]_vars

\* C26: every request to another endpoint than the token endpoint carries
\* the cached token as bearer, that token is not empty and the clock is
\* less than 3600 seconds after the successful exchange that gave it; a
\* cached token has an expiry, which only a successful exchange sets, to
\* the time of that exchange plus 3600 seconds.
C26_BearerIsFreshCachedToken ==
    [][ /\ \A i \in 1..Len(reqs') :
              reqs'[i].endpoint # "oauth2/token"
                => /\ reqs'[i].bearer = token'
                   /\ Truthy(reqs'[i].bearer)
                   /\ token_expiry' # NoExpiry
                   /\ now' - (token_expiry' - 3600) < 3600
        /\ Truthy(token') => token_expiry' # NoExpiry
        /\ IF \E i \in TokenExchanges(reqs') : reqs'[i].status < 400
           THEN token_expiry' = now' + 3600
           ELSE UNCHANGED <<token, token_expiry>> ]_vars

----------------------------------------------------------------------------
(* Properties of the host layer *)

\* the field a handler mirrors and the value it commands with arguments a,
\* NoObj when it commands nothing
Commanded(o, a) ==
    IF o = "async_set_temperature"
    THEN IF a.temperature = None THEN NoObj
         ELSE [field |-> "target_temp", value |-> a.temperature]
    ELSE IF o = "async_set_preset_mode"
    THEN [field |-> "mode", value |-> a.preset_mode]
    ELSE IF a.hvac_mode = "auto" THEN [field |-> "mode", value |-> "program"]
    ELSE IF a.hvac_mode = "heat" THEN [field |-> "mode", value |-> "manual"]
    ELSE IF a.hvac_mode = "off" THEN [field |-> "mode", value |-> "hg"]
    ELSE NoObj

HostSetOps == {"async_set_temperature", "async_set_hvac_mode", "async_set_preset_mode"}

\* C23: a handler whose command the server acknowledged has written the
\* commanded value to the Room's mirrored field, and nothing else; a handler
\* whose command failed (rejected, no token, refused) has left the Rooms as
\* they were; an update whose refresh succeeded has set target temperature
\* and mode of every Room with an entry to the entry's values.
C23_MirrorFollowsCommand ==
    [][ /\ (op' \in HostSetOps /\ Commanded(op', args') # NoObj)
            => LET r == args'.room_id
                   c == Commanded(op', args')
               IN  IF OwnRequestSent' /\ OwnRequest'.status < 400
                   THEN /\ rooms'[r][c.field] = c.value
                        /\ rooms' = [rooms EXCEPT ![r][c.field] = c.value]
                   ELSE rooms' = rooms
        /\ (op' = "async_update" /\ err' = "none")
            => \A k \in DOMAIN rooms :
                  LET entry == FirstWithId(homestatus'.body.home.rooms, rooms[k].id)
                  IN  entry # NoObj
                        => /\ rooms'[k].target_temp = Get(entry, "therm_setpoint_temperature")
                           /\ rooms'[k].mode = Get(entry, "therm_setpoint_mode") ]_vars

\* C23 happens: the server acknowledged the temperature 19.5 for r1, whose
\* entry in the snapshot says 21, and the Room holds 19.5
C23_Witness ==
    /\ op = "async_set_temperature" /\ err = "none"
    /\ args.room_id = "r1" /\ args.temperature = "19.5"
    /\ OwnRequestSent /\ OwnRequest.status = 200
    /\ homestatus # NoObj
    /\ homestatus.body.home.rooms = <<RoomStatusTimed>>
    /\ rooms["r1"].target_temp = "19.5"
    /\ rooms["r1"].mode = "manual"

\* C27: every preset the host layer offers reaches the server when it is
\* selected, and when the server acknowledges it the Room's mode is the
\* selected preset.
C27_EveryPresetReachesServer ==
    op = "async_set_preset_mode"
        => /\ args.preset_mode \in {"program", "manual", "off", "hg"}
           /\ reqs # <<>>
           /\ OwnRequestSent => SentRoom.therm_setpoint_mode = args.preset_mode
           /\ (OwnRequestSent /\ OwnRequest.status < 400)
                => rooms[args.room_id].mode = args.preset_mode

====
